---- MODULE Spec2Model ----
(***************************************************************************)
(* Model of the UserVars evaluation engine (src/src/user-vars.ts): the     *)
(* scoped variable store, path resolution, the recursive evaluator, the    *)
(* dependency map and the result cache.                                    *)
(*                                                                         *)
(* A JavaScript string is modelled as a sequence of tokens.  "." and "/"   *)
(* are tokens of their own, so that startsWith, replace, split and string  *)
(* templates are computed on the text as the code computes them; a run of  *)
(* word characters (an identifier, a literal such as 69) is one token.     *)
(***************************************************************************)
EXTENDS Integers, Sequences, FiniteSets, TLC

VARIABLES
    vars,     \* this.vars: name -> Var | Scope
    cache,    \* this.cache: key -> Literal | TableData
    deps,     \* this.deps: path -> its dependents, in insertion order
    changed,  \* this.changed: the keys whose flag is true
    reads,    \* history: key -> the paths looked up by the evaluation that wrote cache[key]
    last      \* the last public call: its arguments and its outcome

state == <<vars, cache, deps, changed, reads, last>>

-----------------------------------------------------------------------------
(* Bounds *)

\* Depth of the call stack of the engine that runs the code: a deeper
\* recursion ends in a RangeError.
StackLimit == 8

\* Number of public calls in a run
MaxCalls == 4

-----------------------------------------------------------------------------
(* Strings *)

DOT == "."
SLASH == "/"
GLOBAL == <<"global">>
UpMarker == <<DOT, DOT, SLASH>>
GlobalPrefix == <<"global", DOT>>
FullSuffix == <<"-full">>

\* Tokens that hold a character outside [A-Za-z0-9_].
NonWordTokens == {DOT, SLASH, "-full", "[CIRCULAR DEPENDENCY]", "[MISSING REFERENCE]",
                  "[NOT IMPLEMENTED]", "[MISSING ", "[LIST ", "]", "[object Object]",
                  "", " ", "; ", "+", "(", ")", "=", ","}

CIRCULAR == <<"[CIRCULAR DEPENDENCY]">>
MISSING_REFERENCE == <<"[MISSING REFERENCE]">>
NOT_IMPLEMENTED == <<"[NOT IMPLEMENTED]">>

\* String.prototype.startsWith
StartsWith(s, prefix) ==
    /\ Len(s) >= Len(prefix)
    /\ SubSeq(s, 1, Len(prefix)) = prefix

\* s.replace(prefix, "") for a string that starts with prefix
StripPrefix(s, prefix) == SubSeq(s, Len(prefix) + 1, Len(s))

\* s.replace(/\.+/g, ".")
RECURSIVE CollapseDots(_)
CollapseDots(s) ==
    IF Len(s) <= 1 THEN s
    ELSE IF s[1] = DOT /\ s[2] = DOT THEN CollapseDots(Tail(s))
    ELSE <<s[1]>> \o CollapseDots(Tail(s))

\* s.split(".")
RECURSIVE SplitDots(_, _)
SplitDots(s, current) ==
    IF s = <<>> THEN <<current>>
    ELSE IF s[1] = DOT THEN <<current>> \o SplitDots(Tail(s), <<>>)
    ELSE SplitDots(Tail(s), Append(current, s[1]))

\* /^[A-Z\d_]+$/i .test(s)
PatternTest(s) ==
    /\ Len(s) >= 1
    /\ \A i \in 1..Len(s) : s[i] \notin NonWordTokens

-----------------------------------------------------------------------------
(* Path resolver *)

\* normalizePath without the test for a path of several parts
normalizePathOnePart(path, scope) ==
    LET up == StartsWith(path, UpMarker) /\ scope # GLOBAL
        p1 == IF up THEN StripPrefix(path, UpMarker) ELSE path
        p2 == IF StartsWith(p1, GlobalPrefix) THEN StripPrefix(p1, GlobalPrefix) ELSE p1
        first == SplitDots(CollapseDots(p2), <<>>)[1]
    IN  IF scope = GLOBAL \/ up THEN first ELSE scope \o <<DOT>> \o first

normalizePath(path, scope) ==
    LET up == StartsWith(path, UpMarker) /\ scope # GLOBAL
        p1 == IF up THEN StripPrefix(path, UpMarker) ELSE path
        p2 == IF StartsWith(p1, GlobalPrefix) THEN StripPrefix(p1, GlobalPrefix) ELSE p1
        p3 == CollapseDots(p2)
        split == SplitDots(p3, <<>>)
        multipleParts == Len(split) > 1
        first == split[1]
        lastPart == split[Len(split)]
    IN  IF (scope = GLOBAL \/ up) /\ ~multipleParts THEN first
        ELSE IF ~multipleParts THEN scope \o <<DOT>> \o first
        ELSE first \o <<DOT>> \o lastPart

getPath(name, scope) ==
    IF scope # GLOBAL
    THEN IF StartsWith(name, UpMarker)
         THEN StripPrefix(name, UpMarker)
         ELSE scope \o <<DOT>> \o name
    ELSE name

-----------------------------------------------------------------------------
(* Values *)

\* A declared Value: a plain string, or a TypedValue {value, type}.
Str(s) == [shape |-> "string", value |-> s]
Typed(type, s) == [shape |-> "typed", type |-> type, value |-> s]
Lit(s) == Typed("literal", s)
Ref(path) == Typed("reference", path)
Arr(items) == [shape |-> "array", items |-> items]

ValueTypes == {"literal", "reference", "expression"}

\* An evaluated Literal: string | string[]
StringOut(s) == [t |-> "string", v |-> s]
ArrayOut(l) == [t |-> "array", v |-> l]
Undefined == [t |-> "undefined", v |-> <<>>]

\* A stored object is a Var (it has a string varType) or a Scope.
EmptyMap == [k \in {} |-> k]
EmptyScope == [shape |-> "scope", members |-> EmptyMap]

isVar(obj) == obj.shape = "var"

\* Outcome of a call: the engine after it, the value returned or the kind of
\* the exception raised, and the paths its references were looked up at.
Return(this, out, rd) == [this |-> this, out |-> out, raised |-> "none", rd |-> rd]
Throw(this, kind, rd) == [this |-> this, out |-> Undefined, raised |-> kind, rd |-> rd]

\* null or undefined: a key that is not there
Null == [shape |-> "null"]

\* this.vars, every Scope and every Var is an object literal, and a key that
\* is not its own is looked up in Object.prototype: obj.constructor is a
\* function, whatever obj holds.  A function is an object as well; members
\* are the properties written to it.
CONSTRUCTOR == <<"constructor">>
InheritedNames == {CONSTRUCTOR}
Inherited == [shape |-> "function", members |-> EmptyMap]

\* obj[key], for an object whose own properties are m
Member(m, key) ==
    IF key \in DOMAIN m THEN m[key]
    ELSE IF key \in InheritedNames THEN Inherited
    ELSE Null

\* lodash get(this.vars, path, null): the path is split on dots and followed
\* key by key.  (Of the keys of a Var, only the inherited ones are names of
\* the model.)
get(vs, path) ==
    LET keys == SplitDots(path, <<>>)
        top == Member(vs, keys[1])
    IN  IF Len(keys) = 1 THEN top
        ELSE IF Len(keys) # 2 \/ top = Null THEN Null
        ELSE IF top.shape = "var" THEN Member(EmptyMap, keys[2])
        ELSE Member(top.members, keys[2])

\* A lookup that does not tell a Scope from a path that holds nothing
getRawVarLenient(this, path) ==
    LET result == get(this.vars, normalizePath(path, GLOBAL))
    IN  IF isVar(result) THEN [raised |-> "none", var |-> result]
        ELSE [raised |-> "ReferenceError", var |-> Null]

\* getRawVar: the Var, or the kind of error raised
getRawVar(this, path) ==
    LET result == get(this.vars, normalizePath(path, GLOBAL))
    IN  IF isVar(result) THEN [raised |-> "none", var |-> result]
        ELSE IF result # Null THEN [raised |-> "TypeError", var |-> Null]
        ELSE [raised |-> "ReferenceError", var |-> Null]

-----------------------------------------------------------------------------
(* Dependency map and stale flags *)

\* #setChanged: marks path and, recursively, its dependents.  The recursion
\* keeps no record of the paths it has marked.
RECURSIVE setChanged(_, _, _)
RECURSIVE setChangedEach(_, _, _, _)
setChanged(this, path, depth) ==
    IF depth > StackLimit THEN [this |-> this, raised |-> "RangeError"]
    ELSE LET marked == [this EXCEPT !.changed = @ \cup {path}]
         IN  IF path \notin DOMAIN this.deps
             THEN [this |-> marked, raised |-> "none"]
             ELSE setChangedEach(marked, this.deps[path], 1, depth)

setChangedEach(this, dependents, i, depth) ==
    IF i > Len(dependents) THEN [this |-> this, raised |-> "none"]
    ELSE LET r == setChanged(this, dependents[i], depth + 1)
         IN  IF r.raised # "none" THEN r
             ELSE setChangedEach(r.this, dependents, i + 1, depth)

-----------------------------------------------------------------------------
(* Variable store *)

\* An #addScope that replaces a global variable of the name whatever overwrite is
addScopeOverVar(vs, scope, overwrite) ==
    IF Member(vs, scope) = Null \/ isVar(Member(vs, scope))
    THEN [vars |-> (scope :> EmptyScope) @@ vs, ret |-> TRUE]
    ELSE [vars |-> vs, ret |-> TRUE]

\* #addScope: the store after the call and the boolean returned
addScope(vs, scope, overwrite) ==
    IF Member(vs, scope) = Null \/ (overwrite /\ isVar(Member(vs, scope)))
    THEN [vars |-> (scope :> EmptyScope) @@ vs, ret |-> TRUE]
    ELSE IF ~overwrite /\ ~isVar(Member(vs, scope))
    THEN [vars |-> vs, ret |-> TRUE]
    ELSE [vars |-> vs, ret |-> FALSE]

\* A write that drops what is cached for the written path
WriteGlobalEager(this, value) ==
    LET path == getPath(value.name, value.scope)
        stored == [this EXCEPT !.vars = (value.name :> value) @@ @,
                               !.cache = [k \in DOMAIN @ \ {path} |-> @[k]]]
        r == setChanged(stored, path, 1)
    IN  [this |-> r.this, ret |-> TRUE, raised |-> r.raised]

\* this.vars[name] = {...value}; this.#setChanged(getPath(name, scope)); return true
WriteGlobal(this, value) ==
    LET stored == [this EXCEPT !.vars = (value.name :> value) @@ @]
        r == setChanged(stored, getPath(value.name, value.scope), 1)
    IN  [this |-> r.this, ret |-> TRUE, raised |-> r.raised]

\* A write of a scoped variable that lands at the root under the name alone
WriteAtRoot(this, value) ==
    [this |-> setChanged([this EXCEPT !.vars = (value.name :> value) @@ @],
                         getPath(value.name, value.scope), 1).this,
     ret |-> TRUE, raised |-> "none"]

WriteScoped(this, value) ==
    LET scope == Member(this.vars, value.scope)
        members == (value.name :> value) @@ scope.members
        stored == [this EXCEPT !.vars = (value.scope :> [scope EXCEPT !.members = members]) @@ @]
        r == setChanged(stored, getPath(value.name, value.scope), 1)
    IN  [this |-> r.this, ret |-> TRUE, raised |-> r.raised]

Declined(this) == [this |-> this, ret |-> FALSE, raised |-> "none"]

\* May setVar write a variable of the global scope over what is stored?
GlobalWritable(vs, name, forceOverwrite) ==
    \/ Member(vs, name) = Null
    \/ isVar(Member(vs, name))
    \/ forceOverwrite

\* May setVar write into the scope, once #addScope has returned true?
ScopedWritable(vs, scope, name) == Member(Member(vs, scope).members, name) = Null

\* A setVar that tests the name against the pattern and not the scope
setVarNameTested(this, value, forceOverwrite) ==
    IF ~PatternTest(value.name)
    THEN [this |-> this, ret |-> FALSE, raised |-> "string"]
    ELSE IF value.scope = GLOBAL
    THEN IF GlobalWritable(this.vars, value.name, forceOverwrite)
         THEN WriteGlobal(this, value)
         ELSE Declined(this)
    ELSE IF addScope(this.vars, value.scope, forceOverwrite).ret
            /\ ScopedWritable(addScope(this.vars, value.scope, forceOverwrite).vars,
                              value.scope, value.name)
    THEN WriteScoped([this EXCEPT !.vars = addScope(this.vars, value.scope,
                                                    forceOverwrite).vars], value)
    ELSE Declined([this EXCEPT !.vars = addScope(this.vars, value.scope,
                                                 forceOverwrite).vars])

setVar(this, value, forceOverwrite) ==
    IF ~PatternTest(value.name) \/ ~PatternTest(value.scope)
    THEN [this |-> this, ret |-> FALSE, raised |-> "string"]
    ELSE IF value.scope = GLOBAL
    THEN IF GlobalWritable(this.vars, value.name, forceOverwrite)
         THEN WriteGlobal(this, value)
         ELSE Declined(this)
    ELSE LET added == addScope(this.vars, value.scope, forceOverwrite)
             scoped == [this EXCEPT !.vars = added.vars]
         IN  IF added.ret
             THEN IF ScopedWritable(added.vars, value.scope, value.name)
                  THEN WriteScoped(scoped, value)
                  ELSE Declined(scoped)
             ELSE Declined(scoped)

-----------------------------------------------------------------------------
(* Evaluator *)

\* this.deps[thisPath].add(i) for each parent i not yet in the Set
RECURSIVE AddParents(_, _)
AddParents(dependents, parents) ==
    IF parents = <<>> THEN dependents
    ELSE AddParents(
            IF \E k \in 1..Len(dependents) : dependents[k] = parents[1]
            THEN dependents
            ELSE Append(dependents, parents[1]),
            Tail(parents))

\* The dependents recorded from the nearest parent alone
RecordDirectParent(this, thisPath, parents) ==
    LET known == IF thisPath \in DOMAIN this.deps THEN this.deps[thisPath] ELSE <<>>
        direct == IF parents = <<>> THEN <<>> ELSE <<parents[Len(parents)]>>
    IN  [this EXCEPT !.deps = (thisPath :> AddParents(known, direct)) @@ @]

\* if (!this.deps[thisPath]) this.deps[thisPath] = new Set(); then the parents are added
RecordParents(this, thisPath, parents) ==
    LET known == IF thisPath \in DOMAIN this.deps THEN this.deps[thisPath] ELSE <<>>
    IN  [this EXCEPT !.deps = (thisPath :> AddParents(known, parents)) @@ @]

\* A visited set that the evaluation does not add its own path to
originKept(origin, thisPath) == origin

\* origin = new Set(origin); origin.add(thisPath)
originAdd(origin, thisPath) == origin \cup {thisPath}

\* A store that also keeps the computed string as the value of the variable at key
StoreInPlace(this, key, value, rd) ==
    [this EXCEPT !.cache = (key :> value) @@ @,
                 !.changed = @ \ {key},
                 !.reads = (key :> rd) @@ @,
                 !.vars = IF key \in DOMAIN @ /\ isVar(Member(@, key)) /\ value.t = "string"
                          THEN [@ EXCEPT ![key].value = Str(value.v)]
                          ELSE @]

\* this.cache[key] = value; this.changed[key] = false
Store(this, key, value, rd) ==
    [this EXCEPT !.cache = (key :> value) @@ @,
                 !.changed = @ \ {key},
                 !.reads = (key :> rd) @@ @]

Thrown(r) == r.raised # "none"

\* Array.prototype.includes
includes(list, item) == \E k \in 1..Len(list) : list[k] = item

\* A JavaScript number: NaN or an integer
NaN == [nan |-> TRUE, n |-> 0]
Num(n) == [nan |-> FALSE, n |-> n]

\* The decimal text of 0, 1, 2, ...
Numerals == <<"0", "1", "2", "3", "4", "5", "6", "7", "8", "9", "10", "11", "12">>
IsNumeral(token) == includes(Numerals, token)
NumeralValue(token) == (CHOOSE k \in 1..Len(Numerals) : Numerals[k] = token) - 1

\* parseFloat: the number the text starts with, or NaN.  (The numbers of
\* the model are written without sign, fraction or exponent.)
parseFloat(s) ==
    IF Len(s) >= 1 /\ IsNumeral(s[1]) THEN Num(NumeralValue(s[1])) ELSE NaN

\* Number.prototype.toString
NumberText(x) == IF x.nan THEN <<"NaN">> ELSE <<Numerals[x.n + 1]>>

\* A parseLtGt that counts the elements of the left operand alone
parseLtGtLeftList(arg1, arg2) ==
    [num1 |-> IF arg1.t = "string" THEN parseFloat(arg1.v) ELSE Num(Len(arg1.v)),
     num2 |-> IF arg2.t = "string" THEN parseFloat(arg2.v) ELSE NaN]

parseLtGt(arg1, arg2) ==
    [num1 |-> IF arg1.t = "string" THEN parseFloat(arg1.v) ELSE Num(Len(arg1.v)),
     num2 |-> IF arg2.t = "string" THEN parseFloat(arg2.v) ELSE Num(Len(arg2.v))]

\* An eq that compares two lists position by position
comparisons_eqPositional(arg1, arg2) == arg1.t = arg2.t /\ arg1.v = arg2.v

comparisons_eq(arg1, arg2) ==
    IF arg1.t # arg2.t THEN FALSE
    ELSE IF arg1.t = "string" THEN arg1.v = arg2.v
    ELSE /\ \A k \in 1..Len(arg1.v) : includes(arg2.v, arg1.v[k])
         /\ \A k \in 1..Len(arg2.v) : includes(arg1.v, arg2.v[k])

comparisons_lt(arg1, arg2) ==
    LET n == parseLtGt(arg1, arg2)
    IN  ~n.num1.nan /\ ~n.num2.nan /\ n.num1.n < n.num2.n

comparisons_gt(arg1, arg2) ==
    LET n == parseLtGt(arg1, arg2)
    IN  ~n.num1.nan /\ ~n.num2.nan /\ n.num1.n > n.num2.n

comparisons_in(arg1, arg2) ==
    IF arg1.t = "string" THEN includes(arg2.v, arg1.v)
    ELSE \A k \in 1..Len(arg1.v) : includes(arg2.v, arg1.v[k])

\* A comparison that fails a condition whose comparison it does not know
compareKnownOnly(comparison, val1, val2) ==
    IF comparison = "eq" THEN comparisons_eq(val1, val2)
    ELSE IF comparison = "lt" THEN comparisons_lt(val1, val2)
    ELSE IF comparison = "gt" THEN comparisons_gt(val1, val2)
    ELSE IF comparison = "in" THEN val2.t = "array" /\ comparisons_in(val1, val2)
    ELSE FALSE

\* A comparison that takes a right operand of "in" that is no list as a list of one
compareScalarIn(comparison, val1, val2) ==
    IF comparison = "eq" THEN comparisons_eq(val1, val2)
    ELSE IF comparison = "lt" THEN comparisons_lt(val1, val2)
    ELSE IF comparison = "gt" THEN comparisons_gt(val1, val2)
    ELSE IF comparison = "in"
    THEN IF val2.t = "array" THEN comparisons_in(val1, val2) ELSE val1 = val2
    ELSE TRUE

\* The comparison of #evalCondition, once both operands are resolved
compare(comparison, val1, val2) ==
    IF comparison = "eq" THEN comparisons_eq(val1, val2)
    ELSE IF comparison = "lt" THEN comparisons_lt(val1, val2)
    ELSE IF comparison = "gt" THEN comparisons_gt(val1, val2)
    ELSE IF comparison = "in" THEN val2.t = "array" /\ comparisons_in(val1, val2)
    ELSE TRUE

-----------------------------------------------------------------------------
(* The arithmetic parser (expr-eval), as far as the evaluator uses it: an    *)
(* expression is a sum of numbers and identifiers, after any number of       *)
(* statements that end in "; ".                                              *)

RECURSIVE SplitOn(_, _, _)
SplitOn(s, sep, current) ==
    IF s = <<>> THEN <<current>>
    ELSE IF s[1] = sep THEN <<current>> \o SplitOn(Tail(s), sep, <<>>)
    ELSE SplitOn(Tail(s), sep, Append(current, s[1]))

MainStatement(text) ==
    LET statements == SplitOn(text, "; ", <<>>) IN statements[Len(statements)]

Terms(text) == SplitOn(MainStatement(text), "+", <<>>)

\* parser.parse(text) throws on text that is no expression
ParseFails(text) ==
    \E k \in 1..Len(Terms(text)) :
        Len(Terms(text)[k]) # 1 \/ Terms(text)[k][1] \in NonWordTokens

\* parsed.variables(): the identifiers of the expression
variables(text) ==
    {Terms(text)[k] : k \in {j \in 1..Len(Terms(text)) : ~IsNumeral(Terms(text)[j][1])}}

\* Number(x) for a bound value: a string, or an array of numbers
ToNumber(x) ==
    IF x.t = "string" THEN (IF x.v = <<>> THEN Num(0)
                            ELSE IF Len(x.v) = 1 THEN parseFloat(x.v) ELSE NaN)
    ELSE IF x.v = <<>> THEN Num(0)
    ELSE IF Len(x.v) = 1 THEN x.v[1]
    ELSE NaN

RECURSIVE JoinNumbers(_)
JoinNumbers(l) ==
    IF l = <<>> THEN <<>>
    ELSE IF Len(l) = 1 THEN NumberText(l[1])
    ELSE NumberText(l[1]) \o <<",">> \o JoinNumbers(Tail(l))

TermValue(term, input) == IF IsNumeral(term[1]) THEN StringOut(term) ELSE input[term]

RECURSIVE SumTerms(_, _, _)
SumTerms(terms, k, input) ==
    IF k > Len(terms) THEN Num(0)
    ELSE LET x == ToNumber(TermValue(terms[k], input))
             rest == SumTerms(terms, k + 1, input)
         IN  IF x.nan \/ rest.nan THEN NaN ELSE Num(x.n + rest.n)

\* parsed.evaluate(input).toString(): a variable that is not bound throws
ExprEvaluate(text, input) ==
    LET terms == Terms(text)
    IN  IF \E k \in 1..Len(terms) : ~IsNumeral(terms[k][1]) /\ terms[k] \notin DOMAIN input
        THEN [raised |-> "Error", text |-> <<>>]
        ELSE IF Len(terms) = 1
        THEN LET x == TermValue(terms[1], input)
             IN  [raised |-> "none",
                  text |-> IF x.t = "string" THEN x.v ELSE JoinNumbers(x.v)]
        ELSE [raised |-> "none", text |-> NumberText(SumTerms(terms, 1, input))]

\* if (evaluated.match(/,/g)) return evaluated.split(","); return evaluated
SplitResult(text) ==
    IF includes(text, ",") THEN ArrayOut(SplitOn(text, ",", <<>>)) ELSE StringOut(text)

RECURSIVE MapParseFloat(_)
MapParseFloat(l) ==
    IF l = <<>> THEN <<>> ELSE <<parseFloat(l[1])>> \o MapParseFloat(Tail(l))

\* The value bound to a name: a string as it is, an array mapped with parseFloat
Bound(out) == IF out.t = "string" THEN out ELSE ArrayOut(MapParseFloat(out.v))

-----------------------------------------------------------------------------
(* The recursive evaluator.  A call whose result is used more than once is   *)
(* written as an argument of the operator that continues after it.           *)

RECURSIVE evaluate(_, _, _, _, _)
RECURSIVE followReference(_, _, _, _, _, _)
RECURSIVE evaluateList(_, _, _, _, _, _, _, _)
RECURSIVE evaluateBindings(_, _, _, _, _, _, _, _, _, _, _)
RECURSIVE rowPasses(_, _, _, _, _, _, _, _)
RECURSIVE evaluateRows(_, _, _, _, _, _, _, _)
RECURSIVE evaluateFunctions(_, _, _, _, _, _, _, _)
RECURSIVE fullConditions(_, _, _, _, _, _, _, _, _, _)
RECURSIVE fullRows(_, _, _, _, _, _, _, _, _)

WithReads(r, rd) == [r EXCEPT !.rd = @ \cup rd]

IsLiteral(v) == v.shape = "string" \/ (v.shape = "typed" /\ v.type = "literal")

\* A Value used where a string is wanted: a plain string and a literal are
\* used as they are, anything else is followed as a reference.
resolveValue(this, v, scope, origin, parents, depth) ==
    IF IsLiteral(v) THEN Return(this, StringOut(v.value), {})
    ELSE followReference(this, v, scope, origin, parents, depth)

\* The branch of #evaluate for varType "basic"
evaluateBasic(this, value, origin, parents, depth) ==
    IF value.value.shape # "string"
       /\ (value.value.shape # "typed" \/ value.value.type \notin ValueTypes)
    THEN Throw(this, "TypeError", {})
    ELSE resolveValue(this, value.value, value.scope, origin, parents, depth)

\* A list that pushes what the reference gave, whatever it is
pushFollowed(output, e, current) ==
    IF current.t = "array" THEN output \o current.v
    ELSE Append(output, current.v)

\* What the list pushes for an item e that is followed as a reference
pushReference(output, e, current) ==
    IF current.t = "array" THEN output \o current.v
    ELSE IF current = StringOut(MISSING_REFERENCE)
    THEN Append(output, <<"[MISSING ">> \o e.value \o <<"]">>)
    ELSE Append(output, current.v)

\* The list after item i was followed, with outcome current
listPushed(current, list, i, origin, parents, output, rd, depth) ==
    IF Thrown(current) THEN Throw(current.this, current.raised, rd \cup current.rd)
    ELSE evaluateList(current.this, list, i + 1, origin, parents,
                      pushReference(output, list.value.items[i], current.out),
                      rd \cup current.rd, depth)

\* list.value.forEach(...), from item i on
evaluateList(this, list, i, origin, parents, output, rd, depth) ==
    IF i > Len(list.value.items) THEN Return(this, ArrayOut(output), rd)
    ELSE IF IsLiteral(list.value.items[i])
    THEN evaluateList(this, list, i + 1, origin, parents,
                      Append(output, list.value.items[i].value), rd, depth)
    ELSE listPushed(followReference(this, list.value.items[i], list.scope, origin,
                                    parents, depth),
                    list, i, origin, parents, output, rd, depth)

\* #evalCondition, once both operands are resolved
compared(r1, r2, cond) ==
    IF Thrown(r2)
    THEN [this |-> r2.this, output |-> FALSE, val1 |-> r1.out, val2 |-> Undefined,
          raised |-> r2.raised, rd |-> r1.rd \cup r2.rd]
    ELSE [this |-> r2.this, output |-> compare(cond.comparison, r1.out, r2.out),
          val1 |-> r1.out, val2 |-> r2.out, raised |-> "none", rd |-> r1.rd \cup r2.rd]

\* #evalCondition, once val1 is resolved
secondOperand(r1, cond, scope, origin, parents, depth) ==
    IF Thrown(r1)
    THEN [this |-> r1.this, output |-> FALSE, val1 |-> Undefined, val2 |-> Undefined,
          raised |-> r1.raised, rd |-> r1.rd]
    ELSE compared(r1, resolveValue(r1.this, cond.val2, scope, origin, parents, depth), cond)

\* #evalCondition: both operands are resolved, then compared
evalCondition(this, cond, scope, origin, parents, depth) ==
    secondOperand(resolveValue(this, cond.val1, scope, origin, parents, depth),
                  cond, scope, origin, parents, depth)

\* The conditions of a row after condition k was evaluated, with outcome c
conditionChecked(c, conditions, k, scope, origin, parents, rd, depth) ==
    IF Thrown(c) \/ ~c.output
    THEN [this |-> c.this, out |-> FALSE, raised |-> c.raised, rd |-> rd \cup c.rd]
    ELSE rowPasses(c.this, conditions, k + 1, scope, origin, parents, rd \cup c.rd, depth)

\* for (let e of row.conditions) { if (!evalCondition(e)) { out = false; break; } }
rowPasses(this, conditions, k, scope, origin, parents, rd, depth) ==
    IF k > Len(conditions) THEN [this |-> this, out |-> TRUE, raised |-> "none", rd |-> rd]
    ELSE conditionChecked(evalCondition(this, conditions[k], scope, origin, parents, depth),
                          conditions, k, scope, origin, parents, rd, depth)

\* The scan after the conditions of row i were evaluated, with outcome p
rowScanned(p, table, i, step, origin, parents, depth) ==
    IF Thrown(p) THEN Throw(p.this, p.raised, p.rd)
    ELSE IF p.out
    THEN WithReads(resolveValue(p.this, table.value.items[i].output, table.scope, origin,
                                parents, depth), p.rd)
    ELSE evaluateRows(p.this, table, i + step, step, origin, parents, p.rd, depth)

\* The row scan of a table, from row i on, in steps of +1 ("first") or -1 ("last")
evaluateRows(this, table, i, step, origin, parents, rd, depth) ==
    IF i < 1 \/ i > Len(table.value.items)
    THEN WithReads(resolveValue(this, table.default, table.scope, origin, parents, depth), rd)
    ELSE rowScanned(rowPasses(this, table.value.items[i].conditions, 1, table.scope,
                              origin, parents, rd, depth),
                    table, i, step, origin, parents, depth)

\* The branch of #evaluate for varType "table"
evaluateTable(this, value, origin, parents, depth) ==
    IF "priority" \notin DOMAIN value \/ value.priority \notin {"first", "last"}
    THEN Throw(this, "TypeError", {})
    ELSE IF "default" \notin DOMAIN value
            \/ (value.default.shape # "string"
                /\ (value.default.shape # "typed" \/ value.default.type \notin ValueTypes))
    THEN Throw(this, "TypeError", {})
    ELSE IF value.value.shape # "array"
            \/ \E k \in 1..Len(value.value.items) :
                   value.value.items[k].shape \in {"string", "typed"}
    THEN Throw(this, "TypeError", {})
    ELSE evaluateRows(this, value,
                      IF value.priority = "first" THEN 1 ELSE Len(value.value.items),
                      IF value.priority = "first" THEN 1 ELSE -1,
                      origin, parents, {}, depth)

RECURSIVE JoinStatements(_)
JoinStatements(l) ==
    IF l = <<>> THEN <<>> ELSE l[1] \o <<"; ">> \o JoinStatements(Tail(l))

\* The outcome of the loop over expr.functions: the text of the functions, or
\* (done) the value #evaluate returns at once
Functions(this, text, rd) ==
    [this |-> this, out |-> StringOut(text), raised |-> "none", rd |-> rd, done |-> FALSE]

\* The functions after entry i was followed, with outcome func
functionAdded(func, expr, i, origin, parents, functions, rd, depth) ==
    IF Thrown(func)
    THEN [this |-> func.this, out |-> Undefined, raised |-> func.raised,
          rd |-> rd \cup func.rd, done |-> TRUE]
    ELSE IF func.out.t = "array"
    THEN evaluateFunctions(func.this, expr, i + 1, origin, parents,
                           functions \o JoinStatements(func.out.v), rd \cup func.rd, depth)
    ELSE IF func.out = StringOut(MISSING_REFERENCE)
    THEN [this |-> func.this,
          out |-> StringOut(<<"[MISSING ">> \o expr.functions[i].value \o <<"]">>),
          raised |-> "none", rd |-> rd \cup func.rd, done |-> TRUE]
    ELSE evaluateFunctions(func.this, expr, i + 1, origin, parents,
                           functions \o func.out.v \o <<"; ">>, rd \cup func.rd, depth)

\* for (let i of expr.functions): the function fragments put before the expression
evaluateFunctions(this, expr, i, origin, parents, functions, rd, depth) ==
    IF i > Len(expr.functions) THEN Functions(this, functions, rd)
    ELSE IF IsLiteral(expr.functions[i])
    THEN evaluateFunctions(this, expr, i + 1, origin, parents,
                           functions \o expr.functions[i].value \o <<"; ">>, rd, depth)
    ELSE functionAdded(followReference(this, expr.functions[i], expr.scope, origin,
                                       parents, depth),
                       expr, i, origin, parents, functions, rd, depth)

\* parsed.evaluate(input).toString(), split at its commas
evaluated(this, result, rd) ==
    IF result.raised # "none" THEN Throw(this, result.raised, rd)
    ELSE Return(this, SplitResult(result.text), rd)

\* The bindings after binding k was followed, with outcome followed
bindingAdded(followed, bindings, k, text, scope, origin, parents, input, rd, depth, inline) ==
    IF Thrown(followed) THEN Throw(followed.this, followed.raised, rd \cup followed.rd)
    ELSE IF followed.out = StringOut(MISSING_REFERENCE)
    THEN Return(followed.this, StringOut(<<"[MISSING ", "[object Object]", "]">>),
                rd \cup followed.rd)
    ELSE evaluateBindings(followed.this, bindings, k + 1, text, scope, origin, parents,
                          (bindings[k].name :> Bound(followed.out)) @@ input,
                          rd \cup followed.rd, depth, inline)

\* The reference of a binding: an InlineExpression normalizes it before it is followed
bindingReference(current, scope, inline) ==
    IF inline /\ current.shape = "typed"
    THEN Ref(normalizePath(current.value, scope))
    ELSE current

\* for (let i of Object.keys(vars)): the bindings of the names the expression
\* uses, then parsed.evaluate(input).  inline: the bindings of an InlineExpression.
evaluateBindings(this, bindings, k, text, scope, origin, parents, input, rd, depth, inline) ==
    IF k > Len(bindings) THEN evaluated(this, ExprEvaluate(text, input), rd)
    ELSE IF bindings[k].name \notin variables(text)
    THEN evaluateBindings(this, bindings, k + 1, text, scope, origin, parents,
                          input, rd, depth, inline)
    ELSE IF IsLiteral(bindings[k].value)
    THEN evaluateBindings(this, bindings, k + 1, text, scope, origin, parents,
                          (bindings[k].name :> StringOut(bindings[k].value.value)) @@ input,
                          rd, depth, inline)
    ELSE bindingAdded(followReference(this, bindingReference(bindings[k].value, scope, inline),
                                      scope, origin, parents, depth),
                      bindings, k, text, scope, origin, parents, input, rd, depth, inline)

\* The expression once its functions are resolved, with outcome fs
expressionParsed(text, fs, expr, origin, parents, depth) ==
    IF Thrown(fs) THEN Throw(fs.this, fs.raised, fs.rd)
    ELSE IF fs.done THEN Return(fs.this, fs.out, fs.rd)
    ELSE IF ParseFails(fs.out.v \o text) THEN Throw(fs.this, "Error", fs.rd)
    ELSE evaluateBindings(fs.this, expr.vars, 1, fs.out.v \o text, expr.scope, origin,
                          parents, EmptyMap, fs.rd, depth, FALSE)

\* The expression once its text is resolved, with outcome v
expressionText(v, expr, origin, parents, depth) ==
    IF Thrown(v) THEN v
    ELSE IF v.out.t = "array"
    THEN Return(v.this, StringOut(<<"[LIST ">> \o expr.value.value \o <<"]">>), v.rd)
    ELSE expressionParsed(v.out.v,
                          IF "functions" \in DOMAIN expr
                          THEN evaluateFunctions(v.this, expr, 1, origin, parents, <<>>,
                                                 v.rd, depth)
                          ELSE Functions(v.this, <<>>, v.rd),
                          expr, origin, parents, depth)

\* The branch of #evaluate for varType "expression"
evaluateExpression(this, expr, origin, parents, depth) ==
    IF "vars" \notin DOMAIN expr THEN Throw(this, "TypeError", {})
    ELSE expressionText(resolveValue(this, expr.value, expr.scope, origin, parents, depth),
                        expr, origin, parents, depth)

\* #evaluate after the parents are recorded in this.deps
dispatch(this, value, thisPath, origin, parents, depth) ==
    IF thisPath \in origin THEN Return(this, StringOut(CIRCULAR), {})
    ELSE IF value.varType = "basic"
    THEN evaluateBasic(this, value, originAdd(origin, thisPath), parents, depth)
    ELSE IF value.varType = "list"
    THEN IF value.value.shape # "array"
         THEN Throw(this, "TypeError", {})
         ELSE evaluateList(this, value, 1, originAdd(origin, thisPath), parents, <<>>, {},
                           depth)
    ELSE IF value.varType = "table"
    THEN evaluateTable(this, value, originAdd(origin, thisPath), parents, depth)
    ELSE IF value.varType = "expression"
    THEN evaluateExpression(this, value, originAdd(origin, thisPath), parents, depth)
    ELSE Return(this, StringOut(NOT_IMPLEMENTED), {})

\* #evaluate
evaluate(this, value, origin, parents, depth) ==
    IF depth > StackLimit THEN Throw(this, "RangeError", {})
    ELSE dispatch(RecordParents(this, getPath(value.name, value.scope), parents),
                  value, getPath(value.name, value.scope), origin,
                  Append(parents, getPath(value.name, value.scope)), depth)

\* #followReference after the referenced variable was evaluated, with outcome r:
\* this.cache[path] = value; this.changed[path] = false; return value
followed(r, path, looked) ==
    IF r.raised = "ReferenceError"
    THEN Return(r.this, StringOut(MISSING_REFERENCE), r.rd \cup looked)
    ELSE IF Thrown(r) THEN Throw(r.this, r.raised, r.rd \cup looked)
    ELSE Return(Store(r.this, path, r.out, r.rd \cup looked), r.out, r.rd \cup looked)

\* #followReference for a reference, once the path is normalized and looked up
dereference(this, path, raw, origin, parents, depth) ==
    IF raw.raised = "ReferenceError"
    THEN Return(this, StringOut(MISSING_REFERENCE), {normalizePath(path, GLOBAL)})
    ELSE IF raw.raised # "none"
    THEN Throw(this, raw.raised, {normalizePath(path, GLOBAL)})
    ELSE followed(evaluate(this, raw.var, origin, parents, depth + 1),
                  path, {normalizePath(path, GLOBAL)})

\* #followReference: an inline expression is evaluated with its own bindings;
\* a reference is resolved against the scope, evaluated, and cached.
followReference(this, ref, scope, origin, parents, depth) ==
    IF ref.shape # "typed" THEN Throw(this, "TypeError", {})
    ELSE IF ref.type = "expression"
    THEN IF ParseFails(ref.value) THEN Throw(this, "Error", {})
         ELSE IF "vars" \notin DOMAIN ref THEN Throw(this, "TypeError", {})
         ELSE evaluateBindings(this, ref.vars, 1, ref.value, scope, origin, parents,
                               EmptyMap, {}, depth, TRUE)
    ELSE dereference(this, normalizePath(ref.value, scope),
                     getRawVar(this, normalizePath(ref.value, scope)),
                     origin, parents, depth)

\* The path a Value was read from: "" for a string or a literal
ValuePath(v) ==
    IF v.shape # "string" /\ v.type # "literal" THEN v.value ELSE <<>>

\* The entry of a condition in the trace of a table
ConditionData(e, cond) ==
    [val1 |-> cond.val1, val1Path |-> ValuePath(e.val1),
     val2 |-> cond.val2, val2Path |-> ValuePath(e.val2),
     comparison |-> e.comparison]

\* The conditions of a row of the trace after condition k, with outcome cond
fullConditionAdded(cond, conditions, k, scope, origin, parents, data, out, rd, depth) ==
    IF Thrown(cond)
    THEN [this |-> cond.this, conditions |-> data, out |-> FALSE,
          raised |-> cond.raised, rd |-> rd \cup cond.rd]
    ELSE fullConditions(cond.this, conditions, k + 1, scope, origin, parents,
                        Append(data, ConditionData(conditions[k], cond)),
                        out /\ cond.output, rd \cup cond.rd, depth)

\* The conditions of one row of #evaluateFull: all are evaluated
fullConditions(this, conditions, k, scope, origin, parents, data, out, rd, depth) ==
    IF k > Len(conditions)
    THEN [this |-> this, conditions |-> data, out |-> out, raised |-> "none", rd |-> rd]
    ELSE fullConditionAdded(evalCondition(this, conditions[k], scope, origin, parents, depth),
                            conditions, k, scope, origin, parents, data, out, rd, depth)

TableData(table) ==
    [t |-> "TableData", output |-> StringOut(<<>>), outputPath |-> <<>>, outIndex |-> -1,
     value |-> <<>>, default |-> StringOut(<<>>), defaultPath |-> <<>>,
     priority |-> table.priority]

\* The trace with the row i added; chosen: the row gives the output
RowAdded(output, row, i, c, o, chosen) ==
    IF chosen
    THEN [output EXCEPT !.value = Append(@, [conditions |-> c.conditions, output |-> o.out,
                                             outputPath |-> ValuePath(row.output)]),
                        !.output = o.out, !.outIndex = i - 1,
                        !.outputPath = ValuePath(row.output)]
    ELSE [output EXCEPT !.value = Append(@, [conditions |-> c.conditions, output |-> o.out,
                                             outputPath |-> ValuePath(row.output)])]

\* #evaluateFull after the output of row i was resolved, with outcome o
fullRowOutput(c, o, table, i, origin, parents, found, output, depth) ==
    IF Thrown(o) THEN Throw(o.this, o.raised, c.rd \cup o.rd)
    ELSE fullRows(o.this, table, i + 1, origin, parents,
                  found \/ (c.out /\ (~found \/ table.priority = "last")),
                  RowAdded(output, table.value.items[i], i, c, o,
                           c.out /\ (~found \/ table.priority = "last")),
                  c.rd \cup o.rd, depth)

\* #evaluateFull after the conditions of row i were evaluated, with outcome c
fullRowConditions(c, table, i, origin, parents, found, output, depth) ==
    IF Thrown(c) THEN Throw(c.this, c.raised, c.rd)
    ELSE fullRowOutput(c, resolveValue(c.this, table.value.items[i].output, table.scope,
                                       origin, parents, depth),
                       table, i, origin, parents, found, output, depth)

\* #evaluateFull after the default was resolved, with outcome d
fullDefault(d, table, found, output, rd) ==
    IF Thrown(d) THEN Throw(d.this, d.raised, rd \cup d.rd)
    ELSE Return(d.this,
                IF found
                THEN [output EXCEPT !.default = d.out,
                                    !.defaultPath = ValuePath(table.default)]
                ELSE [output EXCEPT !.default = d.out,
                                    !.defaultPath = ValuePath(table.default),
                                    !.output = d.out,
                                    !.outputPath = ValuePath(table.default)],
                rd \cup d.rd)

\* The rows of #evaluateFull from row i on, then the default
fullRows(this, table, i, origin, parents, found, output, rd, depth) ==
    IF i > Len(table.value.items)
    THEN fullDefault(resolveValue(this, table.default, table.scope, origin, parents, depth),
                     table, found, output, rd)
    ELSE fullRowConditions(fullConditions(this, table.value.items[i].conditions, 1,
                                          table.scope, origin, parents, <<>>, TRUE, rd,
                                          depth),
                           table, i, origin, parents, found, output, depth)

\* #evaluateFull
evaluateFull(this, table) ==
    fullRows(this, table, 1, {getPath(table.name, table.scope)},
             <<getPath(table.name, table.scope)>>, FALSE, TableData(table), {}, 1)

-----------------------------------------------------------------------------
(* Reads *)

\* if (!this.changed[key] && this.cache[key]): the empty string is falsy
cacheHit(this, key) ==
    /\ key \notin this.changed
    /\ key \in DOMAIN this.cache
    /\ this.cache[key] # StringOut(<<>>)

\* The rest of getVar, once the Var is found: the cache under key answers, or
\* the value is computed and stored under key
Read(this, key, computed) ==
    IF cacheHit(this, key)
    THEN [this |-> this, out |-> this.cache[key], raised |-> "none", hit |-> TRUE, rd |-> {}]
    ELSE IF Thrown(computed)
    THEN [this |-> computed.this, out |-> Undefined, raised |-> computed.raised,
          hit |-> FALSE, rd |-> computed.rd]
    ELSE [this |-> Store(computed.this, key, computed.out, computed.rd),
          out |-> computed.out, raised |-> "none", hit |-> FALSE, rd |-> computed.rd]

\* A read that asks the cache before it looks the path up
getVarCacheFirst(this, path, full) ==
    IF cacheHit(this, path)
    THEN [this |-> this, out |-> this.cache[path], raised |-> "none", hit |-> TRUE, rd |-> {}]
    ELSE IF getRawVar(this, path).raised # "none"
    THEN [this |-> this, out |-> Undefined, raised |-> getRawVar(this, path).raised,
          hit |-> FALSE, rd |-> {}]
    ELSE Read(this, path, evaluate(this, getRawVar(this, path).var, {}, <<>>, 1))

\* getVar(path, full): the outcome, and whether the cache answered
getVar(this, path, full) ==
    LET raw == getRawVar(this, path)
    IN  IF raw.raised # "none"
        THEN [this |-> this, out |-> Undefined, raised |-> raw.raised, hit |-> FALSE,
              rd |-> {}]
        ELSE IF full /\ raw.var.varType = "table"
        THEN Read(this, path \o FullSuffix, evaluateFull(this, raw.var))
        ELSE Read(this, path, evaluate(this, raw.var, {}, <<>>, 1))

-----------------------------------------------------------------------------
(* The engine as a state machine: one action per public method *)

This == [vars |-> vars, cache |-> cache, deps |-> deps, changed |-> changed, reads |-> reads]

Becomes(this) ==
    /\ vars' = this.vars
    /\ cache' = this.cache
    /\ deps' = this.deps
    /\ changed' = this.changed
    /\ reads' = this.reads

\* new UserVars(): no call yet
NoCall == [op |-> "new", value |-> Null, forceOverwrite |-> FALSE, path |-> <<>>,
           full |-> FALSE, ret |-> <<>>, out |-> Undefined, raised |-> "none",
           hit |-> FALSE, rd |-> {}, before |-> EmptyMap, calls |-> 0]

Called(op) == [NoCall EXCEPT !.op = op, !.before = vars, !.calls = last.calls + 1]

\* constructor
Init ==
    /\ vars = EmptyMap
    /\ cache = EmptyMap
    /\ deps = EmptyMap
    /\ changed = {}
    /\ reads = EmptyMap
    /\ last = NoCall

SetVar(value, forceOverwrite) ==
    LET r == setVar(This, value, forceOverwrite)
    IN  /\ last.calls < MaxCalls
        /\ Becomes(r.this)
        /\ last' = [Called("setVar") EXCEPT !.value = value,
                        !.forceOverwrite = forceOverwrite,
                        !.ret = IF r.raised = "none" THEN <<r.ret>> ELSE <<>>,
                        !.raised = r.raised]

\* setVarBulk(...values): setVar(i, false) for each, in order; an exception ends the loop
RECURSIVE setVarBulk(_, _, _)
setVarBulk(this, values, output) ==
    IF values = <<>> THEN [this |-> this, ret |-> output, raised |-> "none"]
    ELSE LET r == setVar(this, Head(values), FALSE)
         IN  IF r.raised # "none" THEN [this |-> r.this, ret |-> <<>>, raised |-> r.raised]
             ELSE setVarBulk(r.this, Tail(values), Append(output, r.ret))

SetVarBulk(values) ==
    LET r == setVarBulk(This, values, <<>>)
    IN  /\ last.calls < MaxCalls
        /\ Becomes(r.this)
        /\ last' = [Called("setVarBulk") EXCEPT !.value = values, !.ret = r.ret,
                        !.raised = r.raised]

Got(r, path, full) ==
    /\ Becomes(r.this)
    /\ last' = [Called("getVar") EXCEPT !.path = path, !.full = full, !.out = r.out,
                    !.raised = r.raised, !.hit = r.hit, !.rd = r.rd]

GetVar(path, full) ==
    /\ last.calls < MaxCalls
    /\ Got(getVar(This, path, full), path, full)

\* The calls of a run: setVar, setVarBulk and getVar with arguments from the given sets
Calls(values, bulks, paths, fulls) ==
    \/ \E v \in values, f \in BOOLEAN : SetVar(v, f)
    \/ \E b \in bulks : SetVarBulk(b)
    \/ \E p \in paths, f \in fulls : GetVar(p, f)

-----------------------------------------------------------------------------
(* Arguments *)

\* A Var as setVar receives it
Var(name, scope, varType, value) ==
    [shape |-> "var", name |-> name, scope |-> scope, varType |-> varType, value |-> value]

BasicVar(name, scope, value) == Var(name, scope, "basic", value)
ListVar(name, scope, items) == Var(name, scope, "list", Arr(items))

Condition(val1, comparison, val2) ==
    [val1 |-> val1, comparison |-> comparison, val2 |-> val2]
TableRow(conditions, output) ==
    [shape |-> "row", conditions |-> conditions, output |-> output]
TableVar(name, scope, rows, default, priority) ==
    [shape |-> "var", name |-> name, scope |-> scope, varType |-> "table",
     value |-> Arr(rows), default |-> default, priority |-> priority]

Binding(name, value) == [name |-> name, value |-> value]
ExpressionVar(name, scope, value, bindings, functions) ==
    [shape |-> "var", name |-> name, scope |-> scope, varType |-> "expression",
     value |-> value, vars |-> bindings, functions |-> functions]

A == <<"a">>
S == <<"s">>
X == <<"x">>
Y == <<"y">>
S_A == <<"s", DOT, "a">>
S_S == <<"s", DOT, "s">>
GLOBAL_A == <<"global", DOT, "a">>
UP_A == <<DOT, DOT, SLASH, "a">>

\* Store and cache: basic variables of the global scope and of the scope s
StoreValues ==
    {BasicVar(A, GLOBAL, Str(X)), BasicVar(A, GLOBAL, Ref(S)), BasicVar(A, GLOBAL, Ref(A)),
     BasicVar(S, GLOBAL, Str(Y)), BasicVar(S, GLOBAL, Ref(A)),
     BasicVar(A, S, Str(X)), BasicVar(A, S, Str(Y))}

StoreBulks == {<<BasicVar(S, GLOBAL, Str(X)), BasicVar(A, GLOBAL, Ref(S))>>}

StorePaths == {A, S, GLOBAL_A, S_A}

Next == Calls(StoreValues, StoreBulks, StorePaths, {FALSE})

Spec == Init /\ [][Next]_state

\* Evaluation: variables of every kind that refer to each other
TWO == <<"2">>
V == <<"v">>
ATable ==
    TableVar(A, GLOBAL, <<TableRow(<<Condition(Ref(S), "eq", Str(TWO))>>, Lit(X))>>,
             Ref(S), "first")
AExpression ==
    ExpressionVar(A, GLOBAL, Str(<<"v", "+", "1">>), <<Binding(V, Ref(S))>>, <<>>)
SExpression ==
    ExpressionVar(S, GLOBAL, Ref(A), <<>>, <<>>)
STable ==
    TableVar(S, GLOBAL, <<>>, Ref(A), "last")

EvalValues ==
    {BasicVar(A, GLOBAL, Ref(S)), BasicVar(A, GLOBAL, Ref(S_A)),
     ListVar(A, GLOBAL, <<Str(X), Ref(S), Lit(Y)>>), ATable, AExpression,
     BasicVar(S, GLOBAL, Str(TWO)), BasicVar(S, GLOBAL, Ref(A)),
     ListVar(S, GLOBAL, <<Ref(A), Str(TWO)>>), SExpression, STable,
     BasicVar(A, S, Str(X)), BasicVar(A, S, Ref(S)), BasicVar(S, S, Ref(UP_A))}

EvalBulks == {<<BasicVar(A, S, Ref(S)), BasicVar(S, S, Ref(UP_A))>>}

EvalPaths == {A, S, S_A, S_S}

NextEval == Calls(EvalValues, EvalBulks, EvalPaths, BOOLEAN)

SpecEval == Init /\ [][NextEval]_state

-----------------------------------------------------------------------------
(* What a read returns, and what it would return from an empty cache *)

\* The engine with the same store and nothing cached
Fresh == [This EXCEPT !.cache = EmptyMap, !.deps = EmptyMap, !.changed = {},
                      !.reads = EmptyMap]

Outcome(r) == [out |-> r.out, raised |-> r.raised]

Stored(vs, path) == isVar(get(vs, normalizePath(path, GLOBAL)))

\* The path setVar writes a variable to
Target(value) == getPath(value.name, value.scope)

-----------------------------------------------------------------------------
(* C1..C10 *)

\* C1: in every reachable state, getVar(p) of a stored variable p returns what
\* evaluating p against the current store with an empty cache returns.
C1_CacheTransparent ==
    \A p \in StorePaths :
        Stored(vars, p) => Outcome(getVar(This, p, FALSE)) = Outcome(getVar(Fresh, p, FALSE))

\* C2: if the last evaluation of P dereferenced Q, then after a setVar that
\* replaces the variable at Q the next getVar(P) returns the value computed
\* from the new Q, not the cached one.
C2_OverwriteReflected ==
    (/\ last.op = "setVar"
     /\ last.ret = <<TRUE>>
     /\ Stored(last.before, Target(last.value)))
    => \A p \in StorePaths :
           (p \in DOMAIN reads /\ Target(last.value) \in reads[p] /\ Stored(vars, p))
           => Outcome(getVar(This, p, FALSE)) = Outcome(getVar(Fresh, p, FALSE))

\* C3: setVar(v2, false) on a path, global or scoped, that holds a variable v
\* returns false and leaves v stored.
C3_NoOverwriteUnforced ==
    (/\ last.op = "setVar"
     /\ ~last.forceOverwrite
     /\ last.raised = "none"
     /\ Stored(last.before, Target(last.value)))
    => /\ last.ret = <<FALSE>>
       /\ get(vars, Target(last.value)) = get(last.before, Target(last.value))

\* C4: setVar(v2, true) on a path, global or scoped, that holds a variable v
\* returns true and replaces v by v2.
C4_OverwriteForced ==
    (/\ last.op = "setVar"
     /\ last.forceOverwrite
     /\ last.raised = "none"
     /\ Stored(last.before, Target(last.value)))
    => /\ last.ret = <<TRUE>>
       /\ get(vars, Target(last.value)) = last.value

\* C5: a setVar whose name and scope match the identifier pattern returns a
\* boolean and raises nothing, in every reachable state.
C5_SetVarReturns ==
    (/\ last.op = "setVar"
     /\ PatternTest(last.value.name)
     /\ PatternTest(last.value.scope))
    => last.raised = "none" /\ last.ret \in {<<TRUE>>, <<FALSE>>}

\* The variable a Basic reference variable at path p points to
IsBasicReference(vs, p) ==
    /\ Stored(vs, p)
    /\ get(vs, p).varType = "basic"
    /\ get(vs, p).value.shape = "typed"
    /\ get(vs, p).value.type = "reference"

Referenced(vs, p) == normalizePath(get(vs, p).value.value, get(vs, p).scope)

\* p is on a cycle of Basic references of length at most n
RECURSIVE LeadsTo(_, _, _, _)
LeadsTo(vs, p, q, n) ==
    /\ n > 0
    /\ IsBasicReference(vs, p)
    /\ \/ Referenced(vs, p) = q
       \/ LeadsTo(vs, Referenced(vs, p), q, n - 1)

OnCycle(vs, p) == LeadsTo(vs, p, p, Cardinality(StorePaths))

\* C7: every variable on a cycle of references, of length 1 or more, reads
\* as "[CIRCULAR DEPENDENCY]" with getVar, and nothing is raised.
C7_CycleReadsCircular ==
    \A p \in {A, S} :
        OnCycle(vars, p)
        => Outcome(getVar(This, p, FALSE)) = [out |-> StringOut(CIRCULAR), raised |-> "none"]

\* The references of the last read that were looked up and found a Scope
ScopesLookedUp == {q \in last.rd : get(vars, q) # Null /\ ~isVar(get(vars, q))}

C8_TraceRecomputed ==
    (last.op = "setVar" /\ last.ret = <<TRUE>>)
    => \A T \in EvalPaths :
           (/\ Stored(vars, T)
            /\ get(vars, T).varType = "table"
            /\ (T \o FullSuffix) \in DOMAIN reads
            /\ (Target(last.value) = T \/ Target(last.value) \in reads[T \o FullSuffix]))
           => Outcome(getVar(This, T, TRUE)) = Outcome(getVar(Fresh, T, TRUE))

\* C9, as claimed: a read whose evaluation meets a reference to a Scope
\* raises nothing.
C9_ScopeReferenceSentinel ==
    (last.op = "getVar" /\ ScopesLookedUp # {}) => last.raised = "none"

\* C9, amended: a read whose evaluation meets a reference to a Scope raises a
\* TypeError and returns nothing.
C9_ScopeReferenceRaises ==
    (last.op = "getVar" /\ ScopesLookedUp # {})
    => last.raised = "TypeError" /\ last.out = Undefined

\* A read of a List that holds a reference to a Scope after another item
C9_Witness ==
    /\ last.op = "getVar"
    /\ ScopesLookedUp # {}
    /\ last.raised = "TypeError"
    /\ get(vars, last.path).varType = "list"

\* The reference r of a variable of the given scope names nothing stored
Missing(vs, r, scope) ==
    /\ r.shape = "typed"
    /\ r.type = "reference"
    /\ get(vs, normalizePath(normalizePath(r.value, scope), GLOBAL)) = Null

\* What a List whose references are all missing evaluates to: each item in
\* its place, a missing reference as "[MISSING <reference string>]"
RECURSIVE ItemsWithMissing(_)
ItemsWithMissing(items) ==
    IF items = <<>> THEN <<>>
    ELSE <<IF Head(items).shape = "typed" /\ Head(items).type = "reference"
           THEN <<"[MISSING ">> \o Head(items).value \o <<"]">>
           ELSE Head(items).value>> \o ItemsWithMissing(Tail(items))

-----------------------------------------------------------------------------
(* C11..C20 *)

\* What the path names in the store: a Var, a Scope, or nothing (Null)
Named(vs, path) == get(vs, normalizePath(path, GLOBAL))

\* The error of a lookup that finds no Var
LookupError(vs, path) ==
    IF Named(vs, path) = Null THEN "ReferenceError" ELSE "TypeError"

\* C11: getVar(p) and getRawVar(p) raise to their caller, and return no value
\* and no sentinel, when p names nothing in the store (a ReferenceError) or
\* names a Scope (a TypeError), whatever the cache holds for p.
C11_LookupRaises ==
    /\ (last.op = "getVar" /\ ~Stored(vars, last.path))
       => /\ last.raised = LookupError(vars, last.path)
          /\ last.out = Undefined
          /\ ~last.hit
    /\ \A p \in StorePaths \cup EvalPaths :
           ~Stored(vars, p)
           => /\ getRawVar(This, p) = [raised |-> LookupError(vars, p), var |-> Null]
              /\ Outcome(getVar(This, p, FALSE))
                     = [out |-> Undefined, raised |-> LookupError(vars, p)]

\* A read of a path that now names a Scope, while the cache still holds the
\* value of the variable that was there
C11_Witness ==
    /\ last.op = "getVar"
    /\ Named(vars, last.path) # Null
    /\ ~Stored(vars, last.path)
    /\ last.path \in DOMAIN cache
    /\ last.path \notin changed
    /\ last.raised = "TypeError"

\* The write of value would put a Scope where a global Var is stored, or a
\* global Var where a Scope is stored
Collides(vs, value) ==
    IF value.scope = GLOBAL
    THEN value.name \in DOMAIN vs /\ ~isVar(vs[value.name])
    ELSE value.scope \in DOMAIN vs /\ isVar(vs[value.scope])

\* C12: a top-level entry of the store turns from Var to Scope or from Scope
\* to Var only in a setVar with forceOverwrite true; a colliding setVar with
\* forceOverwrite false returns false and leaves the store, the cache, the
\* dependency map and the stale flags as they were.
C12_CollisionNeedsForce ==
    [][/\ \A n \in DOMAIN vars :
              (n \in DOMAIN vars' /\ isVar(vars[n]) # isVar(vars'[n]))
              => (last'.op = "setVar" /\ last'.forceOverwrite)
       /\ (last'.op = "setVar" /\ ~last'.forceOverwrite /\ Collides(vars, last'.value))
          => /\ last'.ret = <<FALSE>>
             /\ UNCHANGED <<vars, cache, deps, changed>>]_state

\* A declined write of a variable into a scope named like a global variable
\* that was read before
C12_Witness ==
    /\ last.op = "setVar"
    /\ ~last.forceOverwrite
    /\ last.value.scope # GLOBAL
    /\ Collides(last.before, last.value)
    /\ last.ret = <<FALSE>>
    /\ last.value.scope \in DOMAIN cache
    /\ vars = last.before

\* C13: for a global variable n, getVar("global." + n) and getVar(n) return
\* the same value in every reachable state.
C13_GlobalPrefixSameRead ==
    (A \in DOMAIN vars /\ isVar(vars[A]))
    => Outcome(getVar(This, GLOBAL_A, FALSE)) = Outcome(getVar(This, A, FALSE))

\* Lists that refer to lists: c, b that holds c twice, a that holds b
B == <<"b">>
C == <<"c">>
GLOBAL_C == <<"global", DOT, "c">>

ListValues ==
    {ListVar(A, GLOBAL, <<Str(X), Ref(B), Lit(Y)>>),
     ListVar(B, GLOBAL, <<Ref(C), Str(TWO), Ref(GLOBAL_C)>>),
     ListVar(B, GLOBAL, <<Lit(X)>>),
     ListVar(C, GLOBAL, <<Str(Y), Str(X)>>),
     ListVar(C, GLOBAL, <<>>),
     ListVar(C, GLOBAL, <<Ref(A)>>),
     BasicVar(C, GLOBAL, Str(X))}

ListBulks ==
    {<<ListVar(C, GLOBAL, <<Str(Y), Str(X)>>),
       ListVar(B, GLOBAL, <<Ref(C), Str(TWO), Ref(GLOBAL_C)>>),
       ListVar(A, GLOBAL, <<Str(X), Ref(B), Lit(Y)>>)>>}

ListPaths == {A, B, C}

NextList == Calls(ListValues, ListBulks, ListPaths, {FALSE})

SpecList == Init /\ [][NextList]_state

\* The variable a reference of a variable of the given scope names, or Null
Referent(vs, r, scope) == get(vs, normalizePath(normalizePath(r.value, scope), GLOBAL))

\* The list is made of strings, literals and references to stored lists that
\* are made the same way, through at most n lists
RECURSIVE ListOfLists(_, _, _)
ListOfLists(vs, list, n) ==
    /\ isVar(list)
    /\ list.varType = "list"
    /\ \A k \in 1..Len(list.value.items) :
           \/ IsLiteral(list.value.items[k])
           \/ /\ list.value.items[k].type = "reference"
              /\ n > 1
              /\ ListOfLists(vs, Referent(vs, list.value.items[k], list.scope), n - 1)

\* The items of such a list, each referenced list in the place of its reference
RECURSIVE Flattened(_, _, _)
Flattened(vs, items, scope) ==
    IF items = <<>> THEN <<>>
    ELSE (IF IsLiteral(Head(items)) THEN <<Head(items).value>>
          ELSE Flattened(vs, Referent(vs, Head(items), scope).value.items,
                         Referent(vs, Head(items), scope).scope))
         \o Flattened(vs, Tail(items), scope)

\* The lists a chain of references can go through
MaxChain == 3

\* C14: getVar of a List variable returns a flat sequence of strings, the
\* elements of each referenced list in order in the place of the reference,
\* through list-to-list references of any depth.
C14_ListFlattened ==
    (/\ last.op = "getVar"
     /\ last.raised = "none"
     /\ ListOfLists(vars, Named(vars, last.path), MaxChain))
    => last.out = ArrayOut(Flattened(vars, Named(vars, last.path).value.items, GLOBAL))

\* Tables: three rows over a and b, with priority "first" and "last"
T == <<"t">>
ONE == <<"1">>
GLOBAL_T == <<"global", DOT, "t">>

Rows ==
    <<TableRow(<<Condition(Ref(A), "eq", Str(X))>>, Lit(ONE)),
      TableRow(<<Condition(Ref(A), "in", Ref(B))>>, Ref(A)),
      TableRow(<<Condition(Ref(B), "in", Ref(C)), Condition(Str(X), "in", Ref(C))>>, Str(TWO))>>

TFirst == TableVar(T, GLOBAL, Rows, Ref(B), "first")
TLast == TableVar(T, GLOBAL, Rows, Ref(B), "last")

AX == BasicVar(A, GLOBAL, Str(X))
AY == BasicVar(A, GLOBAL, Str(Y))
BList == ListVar(B, GLOBAL, <<Str(X), Str(Y)>>)
BShort == ListVar(B, GLOBAL, <<Str(Y)>>)
BBasic == BasicVar(B, GLOBAL, Str(Y))
CList == ListVar(C, GLOBAL, <<Str(Y), Str(X)>>)
CShort == ListVar(C, GLOBAL, <<Str(X)>>)

TableValues == {TFirst, TLast, AX, AY, BList, BShort, BBasic, CShort}

TableBulks ==
    {<<AX, BList, CList, TFirst>>, <<AY, BShort, CList, TLast>>, <<AY, BBasic, CShort, TFirst>>,
     <<AX, BBasic, CList, TLast>>}

TablePaths == {T, GLOBAL_T}

NextTable == Calls(TableValues, TableBulks, TablePaths, BOOLEAN)

SpecTable == Init /\ [][NextTable]_state

\* The rows of the table whose conditions all pass in the store as it is,
\* each row taken by itself
Passing(table) ==
    {i \in 1..Len(table.value.items) :
        LET p == rowPasses(Fresh, table.value.items[i].conditions, 1, table.scope,
                           {Target(table)}, <<Target(table)>>, {}, 2)
        IN  p.raised = "none" /\ p.out}

Lowest(rows) == CHOOSE i \in rows : \A j \in rows : i <= j
Highest(rows) == CHOOSE i \in rows : \A j \in rows : i >= j

\* The Value the table gives: the output of the row its priority picks among
\* the passing rows, or the default
Picked(table) ==
    IF Passing(table) = {} THEN table.default
    ELSE IF table.priority = "first" THEN table.value.items[Lowest(Passing(table))].output
    ELSE table.value.items[Highest(Passing(table))].output

\* That Value resolved in the store as it is
PickedOutcome(table) ==
    Outcome(resolveValue(Fresh, Picked(table), table.scope, {Target(table)},
                         <<Target(table)>>, 2))

IsTable(vs, path) == Stored(vs, path) /\ Named(vs, path).varType = "table"

\* C15: plain getVar of a table returns the resolved output of the
\* lowest-index row whose conditions all pass when priority is "first", of the
\* highest-index such row when priority is "last", and the resolved default
\* when no row passes.
C15_TablePriority ==
    (last.op = "getVar" /\ ~last.full /\ IsTable(vars, last.path))
    => Outcome(last) = PickedOutcome(Named(vars, last.path))

\* val1 in val2, as the claim states it: val2 is a sequence that holds val1,
\* or every element of val1 when val1 is a sequence
InHolds(val1, val2) ==
    /\ val2.t = "array"
    /\ IF val1.t = "array"
       THEN \A k \in 1..Len(val1.v) : \E j \in 1..Len(val2.v) : val2.v[j] = val1.v[k]
       ELSE \E j \in 1..Len(val2.v) : val2.v[j] = val1.v

\* The condition k of row i of the table, evaluated in the store as it is
ConditionAt(table, i, k) ==
    evalCondition(Fresh, table.value.items[i].conditions[k], table.scope,
                  {Target(table)}, <<Target(table)>>, 2)

\* C16: an "in" condition passes exactly when its right operand is a sequence
\* and the left operand is a scalar it holds or a sequence all of whose
\* elements it holds; with another right operand it fails, nothing is raised,
\* and the row does not pass.
C16_InCondition ==
    IsTable(vars, T)
    => \A i \in 1..Len(vars[T].value.items) :
           \A k \in 1..Len(vars[T].value.items[i].conditions) :
               vars[T].value.items[i].conditions[k].comparison = "in"
               => /\ ConditionAt(vars[T], i, k).raised = "none"
                  /\ ConditionAt(vars[T], i, k).output
                         = InHolds(ConditionAt(vars[T], i, k).val1,
                                   ConditionAt(vars[T], i, k).val2)
                  /\ ~ConditionAt(vars[T], i, k).output => i \notin Passing(vars[T])

\* A table read while b holds the string that a holds, not a list: the row
\* of "a in b" is skipped, no row passes, and the read gives the default
C16_Witness ==
    /\ last.op = "getVar"
    /\ ~last.hit
    /\ IsTable(vars, T)
    /\ A \in DOMAIN vars /\ vars[A] = AY
    /\ B \in DOMAIN vars /\ vars[B] = BBasic
    /\ C \in DOMAIN vars /\ vars[C] = CShort
    /\ Passing(vars[T]) = {}
    /\ last.raised = "none"
    /\ last.out = StringOut(Y)

\* The engine after setVar(v, false) of the first k of the values, in order
RECURSIVE AfterWrites(_, _, _)
AfterWrites(this, values, k) ==
    IF k = 0 THEN this
    ELSE setVar(AfterWrites(this, values, k - 1), values[k], FALSE).this

\* C17: setVarBulk(v1..vn) returns n booleans, the i-th the result of
\* setVar(vi, false) applied in input order, and leaves the store as these
\* n calls leave it.
C17_BulkIsEachInOrder ==
    [][last'.op = "setVarBulk"
       => /\ last'.raised = "none"
          /\ Len(last'.ret) = Len(last'.value)
          /\ \A i \in 1..Len(last'.value) :
                 last'.ret[i] = setVar(AfterWrites(This, last'.value, i - 1),
                                       last'.value[i], FALSE).ret
          /\ vars' = AfterWrites(This, last'.value, Len(last'.value)).vars]_state

\* Names and scopes that do not match the pattern, among ones that do
EMPTY == <<>>
A_SPACE == <<"a", " ">>

NameValues ==
    {BasicVar(A, GLOBAL, Str(X)), BasicVar(A, GLOBAL, Ref(S)), BasicVar(S, GLOBAL, Str(Y)),
     BasicVar(A, S, Str(X)),
     BasicVar(S_A, GLOBAL, Str(X)), BasicVar(EMPTY, S, Str(X)), BasicVar(A, UP_A, Str(Y)),
     BasicVar(A, A_SPACE, Str(Y)), BasicVar(S, EMPTY, Str(Y))}

NameBulks == {<<BasicVar(S, GLOBAL, Str(Y)), BasicVar(A, A_SPACE, Str(Y)),
                BasicVar(A, GLOBAL, Ref(S))>>}

NamePaths == {A, S, S_A}

NextNames == Calls(NameValues, NameBulks, NamePaths, {FALSE})

SpecNames == Init /\ [][NextNames]_state

\* C18: setVar raises when the name or the scope of the variable does not
\* match the pattern, and then the store, the cache, the dependency map and
\* the stale flags are as they were.
C18_BadNameRaises ==
    [][(/\ last'.op = "setVar"
        /\ (~PatternTest(last'.value.name) \/ ~PatternTest(last'.value.scope)))
       => /\ last'.raised = "string"
          /\ last'.ret = <<>>
          /\ UNCHANGED <<vars, cache, deps, changed>>]_state

\* A setVar with a scope that does not match, raised on an engine that holds
\* variables, a cached value and a dependency
C18_Witness ==
    /\ last.op = "setVar"
    /\ PatternTest(last.value.name)
    /\ ~PatternTest(last.value.scope)
    /\ last.raised = "string"
    /\ vars = last.before
    /\ A \in DOMAIN cache
    /\ S \in DOMAIN deps /\ deps[S] # <<>>

\* The Var is stored where its own fields say
InPlace(vs, v) == isVar(v) /\ get(vs, getPath(v.name, v.scope)) = v

\* C19: each top-level entry of the store is a Var or a Scope of Vars, every
\* stored Var is global under its name at the root or under its own Scope at
\* its name, and the path of its fields leads to it and to no other.
C19_StoreWellFormed ==
    \A n \in DOMAIN vars :
        IF isVar(vars[n])
        THEN vars[n].name = n /\ vars[n].scope = GLOBAL /\ InPlace(vars, vars[n])
        ELSE /\ vars[n].shape = "scope"
             /\ n # GLOBAL
             /\ \A m \in DOMAIN vars[n].members :
                    /\ vars[n].members[m].name = m
                    /\ vars[n].members[m].scope = n
                    /\ InPlace(vars, vars[n].members[m])

\* A store with a global Var and a Scope that took, by a forced write, the
\* place of a global Var
C19_Witness ==
    /\ last.op = "setVar"
    /\ last.forceOverwrite
    /\ Collides(last.before, last.value)
    /\ last.ret = <<TRUE>>
    /\ \E n \in DOMAIN vars : isVar(vars[n])
    /\ \E n \in DOMAIN vars : ~isVar(vars[n]) /\ DOMAIN vars[n].members # {}

\* The first key of a path
TopKey(path) == SplitDots(normalizePath(path, GLOBAL), <<>>)[1]

\* A write of value is a write to the path, or to the name of the Scope the
\* path goes through, or into a Scope named like the global variable at the path
Touches(value, path) ==
    \/ Target(value) = normalizePath(path, GLOBAL)
    \/ (value.scope = GLOBAL /\ value.name = TopKey(path))
    \/ (value.scope # GLOBAL /\ value.scope = TopKey(path))

\* The step is a write that succeeded and touches the path
WrittenBy(call, path) ==
    \/ /\ call.op = "setVar"
       /\ call.ret = <<TRUE>>
       /\ Touches(call.value, path)
    \/ /\ call.op = "setVarBulk"
       /\ \E i \in 1..Len(call.ret) : call.ret[i] /\ Touches(call.value[i], path)

\* C20: after setVar(v) returns true, getRawVar(getPath(v.name, v.scope))
\* returns v field by field, and what getRawVar returns for a path stays the
\* same until a write to the path, or to a colliding scope or variable name,
\* succeeds.
C20_RawVarIsWritten ==
    [][/\ (last'.op = "setVar" /\ last'.ret = <<TRUE>>)
          => getRawVar([vars |-> vars'], Target(last'.value))
                 = [raised |-> "none", var |-> last'.value]
       /\ \A p \in StorePaths :
              (Stored(vars, p) /\ getRawVar([vars |-> vars'], p) # getRawVar(This, p))
              => WrittenBy(last', p)]_state

-----------------------------------------------------------------------------
(* C21..C30 *)

\* The path functions on their own: names and scopes, valid and not
S_X_A == <<"s", DOT, "x", DOT, "a">>
UP_S_A == <<DOT, DOT, SLASH, "s", DOT, "a">>
S__A == <<"s", DOT, DOT, "a">>

PathNames == {A, S, GLOBAL, S_A, GLOBAL_A, UP_A, UP_S_A, S_X_A, S__A}
PathScopes == {GLOBAL, S, A}
PathArgs == PathNames \cup {getPath(n, s) : n \in PathNames, s \in PathScopes}

\* getPath(name, scope)
GetPath(name, scope) ==
    /\ last.calls < MaxCalls
    /\ UNCHANGED <<vars, cache, deps, changed, reads>>
    /\ last' = [Called("getPath") EXCEPT !.path = name, !.value = scope,
                    !.ret = getPath(name, scope)]

\* normalizePath(path, scope)
NormalizePath(path, scope) ==
    /\ last.calls < MaxCalls
    /\ UNCHANGED <<vars, cache, deps, changed, reads>>
    /\ last' = [Called("normalizePath") EXCEPT !.path = path, !.value = scope,
                    !.ret = normalizePath(path, scope)]

NextPaths ==
    \/ \E n \in PathNames, s \in PathScopes : GetPath(n, s)
    \/ \E p \in PathArgs, s \in PathScopes : NormalizePath(p, s)

SpecPaths == Init /\ [][NextPaths]_state

\* The path of a name under the globalRoot configuration: at the root when
\* globalRoot is true, under "global." when it is false
Rooted(name, globalRoot) == IF globalRoot THEN name ELSE GlobalPrefix \o name

PathOf(name, scope, globalRoot) ==
    IF scope = GLOBAL THEN Rooted(name, globalRoot)
    ELSE IF StartsWith(name, UpMarker)
         THEN LET rest == StripPrefix(name, UpMarker)
              IN  IF includes(rest, DOT) THEN rest ELSE Rooted(rest, globalRoot)
         ELSE scope \o <<DOT>> \o name

\* C21: getPath(name, scope) is the function of (name, scope, globalRoot) that
\* returns name (globalRoot true) or "global." + name (globalRoot false) for
\* the global scope, scope + "." + name for another scope, and for a name
\* that starts with "../" the rest of the name resolved from the global scope,
\* a rest that holds a scope being returned as it is.
C21_GetPathByRoot ==
    last.op = "getPath" =>
        \A globalRoot \in BOOLEAN :
            last.ret = PathOf(last.path, last.value, globalRoot)

\* C22: for a name n and a scope s that match the identifier pattern,
\* normalizePath(getPath(n, s), s) is getPath(n, s).
C22_NormalizeKeepsPath ==
    last.op = "normalizePath" /\ PatternTest(last.value) =>
        \A n \in PathNames :
            PatternTest(n) /\ last.path = getPath(n, last.value) => last.ret = last.path

C22_Witness ==
    /\ last.op = "normalizePath"
    /\ last.value = S
    /\ last.path = getPath(GLOBAL, S)
    /\ last.ret = <<"s", DOT, "global">>

\* Variables whose varType the evaluator does not know, among basic ones
Kinds == {"basic", "list", "table", "expression"}
AInvalid == Var(A, GLOBAL, "invalid", Str(X))
SAInvalid == Var(A, S, "invalid", Ref(S))

KindValues ==
    {AInvalid, SAInvalid, BasicVar(A, GLOBAL, Str(X)), BasicVar(A, GLOBAL, Ref(S)),
     BasicVar(S, GLOBAL, Ref(A)), ListVar(S, GLOBAL, <<Ref(A), Str(Y)>>),
     BasicVar(A, S, Str(Y))}
KindBulks == {<<AInvalid, BasicVar(S, GLOBAL, Ref(A))>>}
KindPaths == {A, S, S_A, GLOBAL_A}

NextKinds == Calls(KindValues, KindBulks, KindPaths, BOOLEAN)

SpecKinds == Init /\ [][NextKinds]_state

\* C23: getVar of a stored variable whose varType is none of basic, list,
\* table and expression returns "[NOT IMPLEMENTED]" and raises nothing.
C23_UnknownKindSentinel ==
    last.op = "getVar" /\ Stored(vars, last.path) =>
        (get(vars, normalizePath(last.path, GLOBAL)).varType \notin Kinds =>
            /\ last.raised = "none"
            /\ last.out = StringOut(NOT_IMPLEMENTED))

\* C24: if getVar(p) returned "[MISSING REFERENCE]" because p refers to a path
\* at which nothing was stored, then after a setVar that creates a variable at
\* that path the next getVar(p) returns the value computed from it.
C24_CreatedReferenceRead ==
    (/\ last.op = "setVar"
     /\ last.ret = <<TRUE>>
     /\ get(last.before, Target(last.value)) = Null)
    => \A p \in StorePaths :
           (/\ p \in DOMAIN reads
            /\ Target(last.value) \in reads[p]
            /\ cache[p] = StringOut(MISSING_REFERENCE)
            /\ Stored(vars, p))
           => Outcome(getVar(This, p, FALSE)) = Outcome(getVar(Fresh, p, FALSE))

\* C25: for a fixed store the value getVar(p) returns does not depend on the
\* paths read before it: an engine that holds the same variables and first
\* read q returns for p what an engine that read nothing returns.
C25_ReadOrderIrrelevant ==
    \A p \in EvalPaths, q \in EvalPaths :
        Stored(vars, p) /\ Stored(vars, q)
        => Outcome(getVar(getVar(Fresh, q, FALSE).this, p, FALSE))
               = Outcome(getVar(Fresh, p, FALSE))

\* C26: deps holds an edge from D to P only if the most recent evaluation of
\* P dereferenced D: after a read that evaluated P, every path that lists P
\* among its dependents was looked up by that evaluation.
C26_NoStaleEdges ==
    (/\ last.op = "getVar"
     /\ ~last.hit
     /\ ~last.full
     /\ last.raised = "none")
    => \A D \in DOMAIN deps :
           includes(deps[D], normalizePath(last.path, GLOBAL)) => D \in last.rd

\* C27: after a getVar(P) that evaluated P, every stored variable D that the
\* evaluation dereferenced, directly or through other variables, lists P
\* among its dependents, and lists every other variable I through which it
\* was reached.
C27_EdgesRecorded ==
    (/\ last.op = "getVar"
     /\ ~last.hit
     /\ last.raised = "none")
    => \A D \in last.rd :
           Stored(vars, D)
           => /\ D \in DOMAIN deps
              /\ includes(deps[D], normalizePath(last.path, GLOBAL))
              /\ \A I \in last.rd :
                     (I # D /\ Stored(vars, I) /\ I \in DOMAIN reads /\ D \in reads[I])
                     => includes(deps[D], I)

\* A read of P that reached D through I
C27_Witness ==
    /\ last.op = "getVar"
    /\ ~last.hit
    /\ last.raised = "none"
    /\ \E D \in last.rd, I \in last.rd :
           /\ Cardinality({D, I, normalizePath(last.path, GLOBAL)}) = 3
           /\ Stored(vars, D) /\ Stored(vars, I)
           /\ I \in DOMAIN reads /\ D \in reads[I]
           /\ includes(deps[D], I)

\* The paths and their dependents, and theirs
RECURSIVE Reached(_, _)
Reached(ds, paths) ==
    LET more == paths \cup UNION {{ds[p][k] : k \in 1..Len(ds[p])} : p \in paths \cap DOMAIN ds}
    IN  IF more = paths THEN paths ELSE Reached(ds, more)

S_CONSTRUCTOR == <<"s", DOT, "constructor">>

ProtoValues ==
    {BasicVar(CONSTRUCTOR, S, Str(X)), BasicVar(A, S, Str(X)), BasicVar(S, GLOBAL, Str(Y)),
     BasicVar(CONSTRUCTOR, GLOBAL, Str(X)), BasicVar(A, GLOBAL, Ref(S_A)),
     BasicVar(A, CONSTRUCTOR, Str(X))}
ProtoBulks == {<<BasicVar(S, GLOBAL, Str(Y)), BasicVar(A, S, Str(X))>>}
ProtoPaths == {A, S, S_A, S_CONSTRUCTOR, CONSTRUCTOR}

NextProto == Calls(ProtoValues, ProtoBulks, ProtoPaths, {FALSE})

SpecProto == Init /\ [][NextProto]_state

\* C29: a setVar that returns false leaves the store, the cache, the
\* dependency map and the stale flags exactly as they were: no Scope was
\* created and no variable was turned into a Scope.
C29_DeclinedWriteChangesNothing ==
    [][last'.op = "setVar" /\ last'.ret = <<FALSE>> =>
          /\ vars' = vars
          /\ cache' = cache
          /\ deps' = deps
          /\ changed' = changed]_state

\* C30: a setVar of a name that an existing Scope does not hold yet returns
\* true and stores the variable, whatever forceOverwrite is.
C30_NewNameInScope ==
    (/\ last.op = "setVar"
     /\ last.value.scope # GLOBAL
     /\ get(last.before, last.value.scope).shape = "scope"
     /\ get(last.before, Target(last.value)) = Null)
    => /\ last.ret = <<TRUE>>
       /\ get(vars, Target(last.value)) = last.value

-----------------------------------------------------------------------------
(* C31..C40 *)

\* The index the trace gives for the row that Picked takes: -1 for the default
PickedIndex(table) ==
    IF Passing(table) = {} THEN -1
    ELSE IF table.priority = "first" THEN Lowest(Passing(table)) - 1
    ELSE Highest(Passing(table)) - 1

\* The plain read and the read of the trace of a table agree
TraceAgrees(plain, full, table) ==
    (plain.raised = "none" /\ full.raised = "none")
    => /\ full.out.output = plain.out
       /\ full.out.outIndex = PickedIndex(table)

\* C31: for a stored table T, when neither read raises, the output of
\* getVar(T, true) is the value of getVar(T), and its outIndex is the index of
\* the row that gave it, -1 for the default.
C31_TraceOutputIsValue ==
    \A p \in TablePaths :
        IsTable(vars, p)
        => TraceAgrees(getVar(This, p, FALSE), getVar(This, p, TRUE), Named(vars, p))

\* Comparisons: a table whose rows compare a with b by eq, lt, gt and by a
\* comparison that is none of the four, over lists, numbers and other strings
THREE == <<"3">>
EQ == <<"eq">>
LT == <<"lt">>
GT == <<"gt">>
NEITHER == <<"neither">>

CompareRows ==
    <<TableRow(<<Condition(Ref(A), "eq", Ref(B))>>, Lit(EQ)),
      TableRow(<<Condition(Ref(A), "lt", Ref(B))>>, Lit(LT)),
      TableRow(<<Condition(Ref(A), "gt", Ref(B))>>, Lit(GT)),
      TableRow(<<Condition(Ref(A), "ne", Ref(B))>>, Lit(NEITHER))>>

TCompareFirst == TableVar(T, GLOBAL, CompareRows, Str(Y), "first")
TCompareLast == TableVar(T, GLOBAL, CompareRows, Str(Y), "last")

CompareValues ==
    {TCompareFirst, TCompareLast,
     ListVar(A, GLOBAL, <<Str(X), Str(Y)>>), ListVar(A, GLOBAL, <<Str(X), Str(X), Str(Y)>>),
     BasicVar(A, GLOBAL, Str(TWO)), BasicVar(A, GLOBAL, Str(X)),
     ListVar(B, GLOBAL, <<Str(Y), Str(X)>>), ListVar(B, GLOBAL, <<Str(X), Str(Y), Str(Y)>>),
     ListVar(B, GLOBAL, <<Str(X)>>), BasicVar(B, GLOBAL, Str(THREE)),
     BasicVar(B, GLOBAL, Str(TWO)), BasicVar(B, GLOBAL, Str(X))}

CompareBulks ==
    {<<ListVar(A, GLOBAL, <<Str(X), Str(Y)>>), BasicVar(B, GLOBAL, Str(ONE)), TCompareFirst>>,
     <<BasicVar(A, GLOBAL, Str(THREE)), ListVar(B, GLOBAL, <<Str(X)>>), TCompareLast>>}

ComparePaths == {T}

NextCompare == Calls(CompareValues, CompareBulks, ComparePaths, BOOLEAN)

SpecCompare == Init /\ [][NextCompare]_state

\* The number of times a sequence holds an element
Count(seq, e) == Cardinality({k \in 1..Len(seq) : seq[k] = e})
Elements(seq) == {seq[k] : k \in 1..Len(seq)}

SameMultiset(s1, s2) == \A e \in Elements(s1) \cup Elements(s2) : Count(s1, e) = Count(s2, e)
SameSet(s1, s2) == Elements(s1) = Elements(s2)

\* The conditions of the stored table t with the given comparison, as (row, condition)
ConditionsOf(comparison) ==
    {ik \in (1..Len(vars[T].value.items)) \X (1..1) :
        vars[T].value.items[ik[1]].conditions[ik[2]].comparison = comparison}

NumberOf(val) == IF val.t = "array" THEN Num(Len(val.v)) ELSE parseFloat(val.v)

Numeric(val1, val2) == ~NumberOf(val1).nan /\ ~NumberOf(val2).nan

\* C33: an "lt" condition passes exactly when both operands count as numbers
\* and the first is less than the second, a "gt" condition when it is greater;
\* an operand that is a string and no number makes it fail, and nothing is
\* raised.
C33_LtGtCoerce ==
    IsTable(vars, T)
    => /\ \A ik \in ConditionsOf("lt") :
              /\ ConditionAt(vars[T], ik[1], ik[2]).raised = "none"
              /\ ConditionAt(vars[T], ik[1], ik[2]).output
                     = (/\ Numeric(ConditionAt(vars[T], ik[1], ik[2]).val1,
                                   ConditionAt(vars[T], ik[1], ik[2]).val2)
                        /\ NumberOf(ConditionAt(vars[T], ik[1], ik[2]).val1).n
                               < NumberOf(ConditionAt(vars[T], ik[1], ik[2]).val2).n)
       /\ \A ik \in ConditionsOf("gt") :
              /\ ConditionAt(vars[T], ik[1], ik[2]).raised = "none"
              /\ ConditionAt(vars[T], ik[1], ik[2]).output
                     = (/\ Numeric(ConditionAt(vars[T], ik[1], ik[2]).val1,
                                   ConditionAt(vars[T], ik[1], ik[2]).val2)
                        /\ NumberOf(ConditionAt(vars[T], ik[1], ik[2]).val1).n
                               > NumberOf(ConditionAt(vars[T], ik[1], ik[2]).val2).n)

\* A read of the table while a is "2" and b a list of one element: the row
\* of "a gt b" gives the value
C33_Witness ==
    /\ last.op = "getVar"
    /\ ~last.hit
    /\ ~last.full
    /\ IsTable(vars, T) /\ vars[T] = TCompareFirst
    /\ A \in DOMAIN vars /\ vars[A] = BasicVar(A, GLOBAL, Str(TWO))
    /\ B \in DOMAIN vars /\ vars[B] = ListVar(B, GLOBAL, <<Str(X)>>)
    /\ last.out = StringOut(GT)

\* The path with a leading "global." left out: the same variable
Unprefixed(path) == IF StartsWith(path, GlobalPrefix) THEN StripPrefix(path, GlobalPrefix) ELSE path

\* The path a reference resolves to, by the number of its segments
SegmentsOf(path) ==
    SplitDots(IF StartsWith(path, UpMarker) THEN StripPrefix(path, UpMarker) ELSE path, <<>>)

Resolved(path, scope) ==
    IF Len(SegmentsOf(path)) = 1
    THEN IF scope = GLOBAL \/ StartsWith(path, UpMarker)
         THEN SegmentsOf(path)[1]
         ELSE scope \o <<DOT>> \o SegmentsOf(path)[1]
    ELSE SegmentsOf(path)[1] \o <<DOT>> \o SegmentsOf(path)[Len(SegmentsOf(path))]

\* C34: normalizePath(path, scope) resolves a bare name to scope.name when the
\* scope is not global and to the global name when the scope is global or the
\* path began with "../"; a path of two segments is used as written, and a
\* longer one keeps its first and its last segment.
C34_NormalizeBySegments ==
    last.op = "normalizePath" /\ last.path \in PathNames
    => Unprefixed(last.ret) = Unprefixed(Resolved(last.path, last.value))

\* Inline expressions: a variable of the scope s whose value is an expression
\* with one binding, beside a variable of s that holds the same reference
UP_X == <<DOT, DOT, SLASH, "x">>
S_Y == <<"s", DOT, "y">>
S_X == <<"s", DOT, "x">>
GLOBAL_X == <<"global", DOT, "x">>

\* An InlineExpression {type: "expression", value, vars}
Inline(text, bindings) ==
    [shape |-> "typed", type |-> "expression", value |-> text, vars |-> bindings]

InlineOf(reference) == BasicVar(A, S, Inline(V, <<Binding(V, Ref(reference))>>))
PlainOf(reference) == BasicVar(Y, S, Ref(reference))

InlineValues ==
    {InlineOf(UP_X), PlainOf(UP_X), InlineOf(X), PlainOf(X), InlineOf(S_X), PlainOf(S_X),
     PlainOf(GLOBAL_X), BasicVar(Y, GLOBAL, Ref(GLOBAL_X)),
     BasicVar(X, GLOBAL, Str(ONE)), BasicVar(X, S, Str(TWO))}
InlineBulks == {<<BasicVar(X, GLOBAL, Str(ONE)), BasicVar(X, S, Str(TWO)), InlineOf(UP_X)>>}
InlinePaths == {S_A, S_Y, X, Y}

NextInline == Calls(InlineValues, InlineBulks, InlinePaths, {FALSE})

SpecInline == Init /\ [][NextInline]_state

\* The reference string of the variable: of its one binding, or of its value
ReferenceOf(v) ==
    IF v.value.type = "expression" THEN v.value.vars[1].value.value ELSE v.value.value

\* C35: a reference in the bindings of an inline expression is looked up at
\* the path at which the same reference string is looked up when it is the
\* plain reference of a variable of the same scope; "../x" in the scope s is
\* looked up at x.
C35_InlineResolvesAlike ==
    (/\ Stored(vars, S_A) /\ get(vars, S_A).value.type = "expression"
     /\ Stored(vars, S_Y)
     /\ ReferenceOf(get(vars, S_A)) = ReferenceOf(get(vars, S_Y)))
    => /\ getVar(Fresh, S_A, FALSE).rd = getVar(Fresh, S_Y, FALSE).rd
       /\ ReferenceOf(get(vars, S_A)) = UP_X => getVar(Fresh, S_A, FALSE).rd = {X}

\* The stored variable at the path is a plain reference written "global.x"
RefersToGlobalX(vs, path) ==
    /\ Stored(vs, path)
    /\ get(vs, path).value.shape = "typed"
    /\ get(vs, path).value.type = "reference"
    /\ get(vs, path).value.value = GLOBAL_X

\* C36: a reference written "global.x" is looked up at the global variable x
\* whatever the scope of the variable that holds it.
C36_GlobalPrefixIsGlobal ==
    \A p \in {S_Y, Y} :
        RefersToGlobalX(vars, p) => getVar(Fresh, p, FALSE).rd = {X}

\* Values whose shape does not match the declared varType
BOGUS == Typed("bogus", X)

MalformedValues ==
    {BasicVar(A, GLOBAL, BOGUS), BasicVar(A, GLOBAL, Arr(<<Str(X)>>)),
     BasicVar(A, GLOBAL, Ref(X)),
     ListVar(A, GLOBAL, <<BOGUS>>), ListVar(A, GLOBAL, <<Str(X), Ref(X)>>),
     Var(A, GLOBAL, "list", Str(X)),
     TableVar(A, GLOBAL, <<>>, BOGUS, "first"), TableVar(A, GLOBAL, <<>>, Ref(X), "first"),
     ExpressionVar(A, GLOBAL, Str(V), <<Binding(V, BOGUS)>>, <<>>),
     ExpressionVar(A, GLOBAL, Str(V), <<Binding(V, Ref(X))>>, <<>>),
     ExpressionVar(A, GLOBAL, Str(ONE), <<>>, <<BOGUS>>),
     BasicVar(X, GLOBAL, Str(ONE)), BasicVar(X, GLOBAL, Str(TWO))}
MalformedBulks == {<<BasicVar(X, GLOBAL, Str(ONE)), ListVar(A, GLOBAL, <<BOGUS>>)>>}
MalformedPaths == {A, X}

NextMalformed == Calls(MalformedValues, MalformedBulks, MalformedPaths, BOOLEAN)

SpecMalformed == Init /\ [][NextMalformed]_state

\* v is neither a string nor a wrapper typed literal, reference or expression
BadValue(v) == v.shape # "string" /\ (v.shape # "typed" \/ v.type \notin ValueTypes)

\* The shape of the value of v does not match its varType
Mismatched(v) ==
    IF v.varType = "basic" THEN BadValue(v.value)
    ELSE IF v.varType = "list"
    THEN v.value.shape # "array" \/ \E i \in DOMAIN v.value.items : BadValue(v.value.items[i])
    ELSE IF v.varType = "table" THEN BadValue(v.default)
    ELSE \/ \E k \in DOMAIN v.vars : BadValue(v.vars[k].value)
         \/ \E i \in DOMAIN v.functions : BadValue(v.functions[i])

\* C37: evaluating a variable whose value does not match its varType raises
\* a TypeError, whether the mismatch is in a Basic value, a List item, a Table
\* default or an Expression binding or function entry.
C37_MismatchRaises ==
    (Stored(vars, A) /\ Mismatched(get(vars, A)))
    => getVar(Fresh, A, FALSE).raised = "TypeError"

\* Expressions that refer to x from a binding, a function entry and the text
ByBinding == ExpressionVar(A, GLOBAL, Str(V), <<Binding(V, Ref(X))>>, <<>>)
ByUnusedBinding == ExpressionVar(A, GLOBAL, Str(ONE), <<Binding(V, Ref(X))>>, <<>>)
ByFunction == ExpressionVar(A, GLOBAL, Str(ONE), <<>>, <<Ref(X)>>)
ByText == ExpressionVar(A, GLOBAL, Ref(X), <<>>, <<>>)

SentinelValues ==
    {ByBinding, ByUnusedBinding, ByFunction, ByText,
     BasicVar(X, GLOBAL, Str(ONE)), ListVar(X, GLOBAL, <<Str(ONE), Str(TWO)>>)}
SentinelBulks == {<<ListVar(X, GLOBAL, <<Str(ONE), Str(TWO)>>), ByText>>}
SentinelPaths == {A, X}

NextSentinel == Calls(SentinelValues, SentinelBulks, SentinelPaths, BOOLEAN)

SpecSentinel == Init /\ [][NextSentinel]_state

\* The sentinel "[<word> <reference string>]"
Sentinel(word, reference) == StringOut(<<word>> \o reference \o <<"]">>)

\* getVar of an uncached store returns the string and raises nothing
Gives(path, out) ==
    getVar(Fresh, path, FALSE).raised = "none" /\ getVar(Fresh, path, FALSE).out = out

\* C38: an Expression evaluates to "[MISSING x]" when a function entry or a
\* used binding refers to x and nothing is stored at x, and to "[LIST x]" when
\* its text is a reference to x and x is a sequence; it raises in neither case.
C38_ExpressionSentinels ==
    /\ (get(vars, A) \in {ByBinding, ByFunction} /\ get(vars, X) = Null)
       => Gives(A, Sentinel("[MISSING ", X))
    /\ (get(vars, A) = ByText /\ Stored(vars, X) /\ get(vars, X).varType = "list")
       => Gives(A, Sentinel("[LIST ", X))

\* getRawVar(path) as a call of its own: it looks the path up and returns the Var
GetRawVar(path) ==
    /\ last.calls < MaxCalls
    /\ Becomes(This)
    /\ last' = [Called("getRawVar") EXCEPT !.path = path,
                    !.ret = IF getRawVar(This, path).raised = "none"
                            THEN <<getRawVar(This, path).var>> ELSE <<>>,
                    !.raised = getRawVar(This, path).raised]

NextReads ==
    \/ NextMalformed
    \/ \E p \in MalformedPaths : GetRawVar(p)

SpecReads == Init /\ [][NextReads]_state

\* C39: a call of getVar or getRawVar leaves every stored variable and scope
\* as it was, whether the call returns or raises.
C39_ReadsKeepStore ==
    [][last'.op \in {"getVar", "getRawVar"} => vars' = vars]_state

\* A read that raised, after an earlier read filled the cache
C39_Witness ==
    /\ last.op = "getVar"
    /\ last.raised = "TypeError"
    /\ cache # EmptyMap
    /\ vars = last.before

\* The row of CompareRows that is guarded by the comparison "ne" only: the last one
NeitherRow == Len(CompareRows)

\* C40: a condition whose comparison is none of eq, lt, gt, in passes, so the
\* row it guards alone matches in the plain read and in the trace: the table
\* never falls to its default, and with priority "last" that row is the one picked.
C40_UnknownComparisonPasses ==
    IsTable(vars, T)
    => /\ \A ik \in ConditionsOf("ne") :
              /\ ConditionAt(vars[T], ik[1], ik[2]).raised = "none"
              /\ ConditionAt(vars[T], ik[1], ik[2]).output
       /\ NeitherRow \in Passing(vars[T])
       /\ getVar(Fresh, T, FALSE).raised = "none"
       /\ getVar(Fresh, T, FALSE).out # StringOut(Y)
       /\ getVar(Fresh, T, TRUE).raised = "none"
       /\ getVar(Fresh, T, TRUE).out.outIndex # -1
       /\ vars[T].priority = "last"
          => /\ getVar(Fresh, T, FALSE).out = StringOut(NEITHER)
             /\ getVar(Fresh, T, TRUE).out.outIndex = NeitherRow - 1

\* The trace of a table of priority "first" whose only matching row is that one
C40_Witness ==
    /\ IsTable(vars, T)
    /\ vars[T].priority = "first"
    /\ Passing(vars[T]) = {NeitherRow}
    /\ last.op = "getVar" /\ last.path = T /\ last.full
    /\ last.raised = "none"
    /\ last.out.outIndex = NeitherRow - 1

====
